---- MODULE Spec2Model ----
(***************************************************************************)
(* LRUCache of pkg/cache/lru_cache.go: a map from key to item, a           *)
(* container/list recency list (front = most recently used), four atomic   *)
(* counters, and the cleanupExpired goroutine.  Every method body runs     *)
(* under c.mu, so each method is one atomic action.  Time is a global      *)
(* integer clock; time.Now() reads it.                                     *)
(***************************************************************************)
EXTENDS Integers, Sequences, FiniteSets, TLC

VARIABLES
    capacity,     \* LRUCache.capacity
    ttl,          \* LRUCache.ttl
    items,        \* LRUCache.items : key -> lruItem
    lruList,      \* LRUCache.lruList : sequence of list elements, front first
    hits,         \* LRUCache.hits
    misses,       \* LRUCache.misses
    evictions,    \* LRUCache.evictions
    expirations,  \* LRUCache.expirations
    now,          \* the clock read by time.Now()
    ret,          \* the last call: its name, its key, whether its map lookup found the
                  \* key (stored), and the (value, found) that Get returned
    touched,      \* history: for each stored key the value and time of its latest Set,
                  \* in the order of the latest touch (Get hit or Set), latest first
    reclaimer,    \* the cleanupExpired goroutine: "running", or "panicked" at its start
    disposed,     \* whether the cache's owner has dropped it
    lastTick,     \* the time of the last tick of ticker.C that cleanupExpired served
    serverCache,  \* Server.cache: what the server was configured with
    calls,        \* history: the Get calls completed and the expirations they counted
                  \* since the last ResetStats, the key the last Set found stored and
                  \* expired, and whether the last ResetStats lowered a counter
    heap,         \* the bucket objects of the rate limiter, by pointer
    buckets,      \* RateLimiter.buckets : client -> bucket
    mu,           \* LRUCache.mu: the goroutine holding it for writing, those reading
    pc            \* where each goroutine is in the call it is making

\* the variables outside the cache's own fields, clock and call record
aux == <<reclaimer, disposed, lastTick, serverCache, calls, heap, buckets, mu, pc>>

vars == <<capacity, ttl, items, lruList, hits, misses, evictions, expirations, now, ret,
          touched, reclaimer, disposed, lastTick, serverCache, calls, heap, buckets, mu, pc>>

----------------------------------------------------------------------------
(* Bounds of the model *)

\* the ttl the cache is constructed with: time.NewTicker(c.ttl / 2) needs a
\* positive period, so a running cache has a ttl of 2 or more
TTL == 2
MaxTime == 3
MaxCount == 2

Keys == {"a", "b", "c"}
Values == {"v1", "v2"}
Nil == "nil"

\* the capacities a cache is constructed with: small enough that a full cache
\* can still be offered a key it does not hold
Capacities == 1..(Cardinality(Keys) - 1)

----------------------------------------------------------------------------
(* container/list, as far as the cache uses it.  An element is a record    *)
(* [id, Value]: id stands for the *list.Element pointer.                   *)

SeqRemoveAt(s, i) == SubSeq(s, 1, i - 1) \o SubSeq(s, i + 1, Len(s))

ListIndex(l, e) ==
    IF \E i \in 1..Len(l) : l[i].id = e
    THEN CHOOSE i \in 1..Len(l) : l[i].id = e
    ELSE 0

ElementIds(l) == {l[i].id : i \in 1..Len(l)}

\* a fresh element: the least pointer value not in use by the list
NewElement(l) == CHOOSE n \in 1..(Len(l) + 1) :
                    /\ n \notin ElementIds(l)
                    /\ \A m \in 1..(n - 1) : m \in ElementIds(l)

ListPushFront(l, v) == <<[id |-> NewElement(l), Value |-> v]>> \o l

ListMoveToFront(l, e) ==
    LET i == ListIndex(l, e)
    IN  IF i = 0 \/ i = 1 THEN l
        ELSE <<l[i]>> \o SeqRemoveAt(l, i)

\* mutant: Remove that leaves the list as it is
ListRemove_Noop(l, e) == l

ListRemove(l, e) ==
    LET i == ListIndex(l, e)
    IN  IF i = 0 THEN l ELSE SeqRemoveAt(l, i)

\* the nil *list.Element
NilElement == [id |-> 0, Value |-> Nil]

\* the element at the back, or nil for an empty list
ListBack(l) == IF Len(l) = 0 THEN NilElement ELSE l[Len(l)]

----------------------------------------------------------------------------
(* The cache as a value, so that helper calls compose inside one method *)

Cache == [items |-> items, lruList |-> lruList, hits |-> hits, misses |-> misses,
          evictions |-> evictions, expirations |-> expirations]

Commit(c) ==
    /\ items' = c.items
    /\ lruList' = c.lruList
    /\ hits' = c.hits
    /\ misses' = c.misses
    /\ evictions' = c.evictions
    /\ expirations' = c.expirations

\* the counters are capped: a call that would count n more events is not taken
\* once the counters together have reached MaxCount
CanCount(n) == hits + misses + evictions + expirations + n <= MaxCount

MapDelete(m, key) == [k \in (DOMAIN m) \ {key} |-> m[k]]

MapPut(m, key, item) == [k \in (DOMAIN m) \cup {key} |-> IF k = key THEN item ELSE m[k]]

\* time.Now().After(item.expiration)
Expired(item, t) == t > item.expiration

\* mutant: the map entry is deleted and its list element is left behind
remove_KeepElement(c, key) ==
    IF key \in DOMAIN c.items
    THEN [c EXCEPT !.items = MapDelete(c.items, key)]
    ELSE c

remove(c, key) ==
    IF key \in DOMAIN c.items
    THEN [c EXCEPT !.lruList = ListRemove(c.lruList, c.items[key].element),
                   !.items = MapDelete(c.items, key)]
    ELSE c

\* mutant: takes the element at the front instead of the one at the back
evictOldest_Front(c) ==
    IF Len(c.lruList) > 0
    THEN [remove(c, c.lruList[1].Value) EXCEPT !.evictions = c.evictions + 1]
    ELSE c

\* mutant: an eviction that prefers an entry whose expiry has passed, and
\* counts it as an expiration
evictOldest_ExpiredFirst(c) ==
    IF \E k \in DOMAIN c.items : Expired(c.items[k], now)
    THEN [remove(c, CHOOSE k \in DOMAIN c.items : Expired(c.items[k], now))
            EXCEPT !.expirations = c.expirations + 1]
    ELSE LET element == ListBack(c.lruList)
         IN  IF element # NilElement
             THEN [remove(c, element.Value) EXCEPT !.evictions = c.evictions + 1]
             ELSE c

evictOldest(c) ==
    LET element == ListBack(c.lruList)
    IN  IF element # NilElement
        THEN [remove(c, element.Value) EXCEPT !.evictions = c.evictions + 1]
        ELSE c

----------------------------------------------------------------------------
(* Construction *)

\* the result of a call that returns nothing
NoCall == [op |-> "none", key |-> Nil, stored |-> FALSE, found |-> FALSE, value |-> Nil]

NewLRUCache(cap, d) ==
    /\ capacity = cap
    /\ ttl = d
    /\ items = << >>
    /\ lruList = << >>
    /\ hits = 0
    /\ misses = 0
    /\ evictions = 0
    /\ expirations = 0

\* Go's integer division truncates toward zero
GoDiv(a, b) == IF a >= 0 THEN a \div b ELSE -((-a) \div b)

\* mutant: a ticker with the period ttl
TickPeriod_Full(d) == d

\* c.ttl / 2, the period cleanupExpired gives its ticker
TickPeriod(d) == GoDiv(d, 2)

\* time.NewTicker panics on a period that is not positive
NewTicker(d) == IF d <= 0 THEN "panicked" ELSE "running"

\* the goroutines that call the cache, and the cleanup goroutine
Callers == {"g1", "g2"}
Cleaner == "cleaner"
Procs == Callers \cup {Cleaner}

\* no call counted yet
NoCalls == [gets |-> 0, getExpirations |-> 0, revived |-> Nil, lowered |-> FALSE]

\* the local variable item of Set before an item is built
NoItem == [key |-> Nil, value |-> Nil, expiration |-> 0, element |-> 0]

\* a goroutine that is not inside a call
Idle == [at |-> "idle", op |-> "none", key |-> Nil, value |-> Nil, item |-> NoItem]

\* sync.RWMutex, unlocked
Unlocked == [writer |-> Nil, readers |-> {}]

\* everything around the cache at rest: the cleanup goroutine started by
\* NewLRUCache, no caller inside a call, a server configured with the cache,
\* a rate limiter that has seen no client
AroundInit ==
    /\ disposed = FALSE
    /\ lastTick = 0
    /\ serverCache = "LRUCache"
    /\ calls = NoCalls
    /\ heap = << >>
    /\ buckets = << >>
    /\ mu = Unlocked
    /\ pc = [p \in Procs |-> Idle]

AuxInit ==
    /\ reclaimer = NewTicker(TickPeriod(ttl))
    /\ AroundInit

Init ==
    /\ \E cap \in Capacities : NewLRUCache(cap, TTL)
    /\ now = 0
    /\ ret = NoCall
    /\ touched = << >>
    /\ AuxInit

----------------------------------------------------------------------------
(* Methods *)

Returns(op, key, stored, value, found) ==
    ret' = [op |-> op, key |-> key, stored |-> stored, found |-> found, value |-> value]

\* mutant: a lookup of an absent key that is not counted
GetMiss_NoCount(key) ==
    /\ key \notin DOMAIN items
    /\ CanCount(1)
    /\ Commit(Cache)
    /\ Returns("Get", key, FALSE, Nil, FALSE)

GetMiss(key) ==
    /\ key \notin DOMAIN items
    /\ CanCount(1)
    /\ Commit([Cache EXCEPT !.misses = misses + 1])
    /\ Returns("Get", key, FALSE, Nil, FALSE)

\* mutant: the expired entry is removed but not counted as an expiration
GetExpired_NoCount(key) ==
    /\ key \in DOMAIN items
    /\ Expired(items[key], now)
    /\ CanCount(2)
    /\ Commit([remove(Cache, key) EXCEPT !.misses = misses + 1])
    /\ Returns("Get", key, TRUE, Nil, FALSE)

GetExpired(key) ==
    /\ key \in DOMAIN items
    /\ Expired(items[key], now)
    /\ CanCount(2)
    /\ Commit([remove(Cache, key) EXCEPT !.expirations = expirations + 1,
                                         !.misses = misses + 1])
    /\ Returns("Get", key, TRUE, Nil, FALSE)

\* mutant: a hit that is counted twice
GetHit_Twice(key) ==
    /\ key \in DOMAIN items
    /\ ~Expired(items[key], now)
    /\ CanCount(2)
    /\ Commit([Cache EXCEPT !.lruList = ListMoveToFront(lruList, items[key].element),
                            !.hits = hits + 2])
    /\ Returns("Get", key, TRUE, items[key].value, TRUE)

\* mutant: a hit that leaves the recency list as it is
GetHit_NoMove(key) ==
    /\ key \in DOMAIN items
    /\ ~Expired(items[key], now)
    /\ CanCount(1)
    /\ Commit([Cache EXCEPT !.hits = hits + 1])
    /\ Returns("Get", key, TRUE, items[key].value, TRUE)

GetHit(key) ==
    /\ key \in DOMAIN items
    /\ ~Expired(items[key], now)
    /\ CanCount(1)
    /\ Commit([Cache EXCEPT !.lruList = ListMoveToFront(lruList, items[key].element),
                            !.hits = hits + 1])
    /\ Returns("Get", key, TRUE, items[key].value, TRUE)

Get(key) ==
    /\ \/ GetMiss(key)
       \/ GetExpired(key)
       \/ GetHit(key)
    /\ UNCHANGED <<capacity, ttl, now>>

\* mutant: an update that counts the expiry of the entry it overwrites
SetUpdate_CountsExpiry(key, value) ==
    /\ key \in DOMAIN items
    /\ Expired(items[key], now) => CanCount(1)
    /\ Commit([Cache EXCEPT !.items[key].value = value,
                            !.items[key].expiration = now + ttl,
                            !.lruList = ListMoveToFront(lruList, items[key].element),
                            !.expirations = IF Expired(items[key], now) THEN @ + 1 ELSE @])

\* mutant: an update that keeps the old expiry
SetUpdate_KeepExpiry(key, value) ==
    /\ key \in DOMAIN items
    /\ Commit([Cache EXCEPT !.items[key].value = value,
                            !.lruList = ListMoveToFront(lruList, items[key].element)])

SetUpdate(key, value) ==
    /\ key \in DOMAIN items
    /\ Commit([Cache EXCEPT !.items[key].value = value,
                            !.items[key].expiration = now + ttl,
                            !.lruList = ListMoveToFront(lruList, items[key].element)])

\* mutant: the capacity check lets the list grow one past the capacity
SetInsert_OffByOne(key, value) ==
    /\ key \notin DOMAIN items
    /\ Len(lruList) > capacity => CanCount(1)
    /\ LET c1 == IF Len(lruList) > capacity THEN evictOldest(Cache) ELSE Cache
           l2 == ListPushFront(c1.lruList, key)
           item == [key |-> key, value |-> value, expiration |-> now + ttl,
                    element |-> l2[1].id]
       IN  Commit([c1 EXCEPT !.lruList = l2, !.items = MapPut(c1.items, key, item)])

SetInsert(key, value) ==
    /\ key \notin DOMAIN items
    /\ Len(lruList) >= capacity => CanCount(1)
    /\ LET c1 == IF Len(lruList) >= capacity THEN evictOldest(Cache) ELSE Cache
           l2 == ListPushFront(c1.lruList, key)
           item == [key |-> key, value |-> value, expiration |-> now + ttl,
                    element |-> l2[1].id]
       IN  Commit([c1 EXCEPT !.lruList = l2, !.items = MapPut(c1.items, key, item)])

Set(key, value) ==
    /\ \/ SetUpdate(key, value)
       \/ SetInsert(key, value)
    /\ Returns("Set", key, key \in DOMAIN items, Nil, FALSE)
    /\ UNCHANGED <<capacity, ttl, now>>

Delete(key) ==
    /\ Commit(remove(Cache, key))
    /\ Returns("Delete", key, key \in DOMAIN items, Nil, FALSE)
    /\ UNCHANGED <<capacity, ttl, now>>

\* mutant: a Clear that also starts the hit count anew
Clear_ResetsHits ==
    /\ Commit([Cache EXCEPT !.items = << >>, !.lruList = << >>, !.hits = 0])
    /\ Returns("Clear", Nil, FALSE, Nil, FALSE)
    /\ UNCHANGED <<capacity, ttl, now>>

\* mutant: the map is replaced and the list is not
Clear_KeepList ==
    /\ Commit([Cache EXCEPT !.items = << >>])
    /\ Returns("Clear", Nil, FALSE, Nil, FALSE)
    /\ UNCHANGED <<capacity, ttl, now>>

Clear ==
    /\ Commit([Cache EXCEPT !.items = << >>, !.lruList = << >>])
    /\ Returns("Clear", Nil, FALSE, Nil, FALSE)
    /\ UNCHANGED <<capacity, ttl, now>>

\* Size() only reads: it returns len(c.items)
Size == Cardinality(DOMAIN items)

\* mutant: one of the four counters is not reset
ResetStats_SkipExpirations ==
    /\ hits' = 0
    /\ misses' = 0
    /\ evictions' = 0
    /\ Returns("ResetStats", Nil, FALSE, Nil, FALSE)
    /\ UNCHANGED <<capacity, ttl, items, lruList, expirations, now>>

ResetStats ==
    /\ hits' = 0
    /\ misses' = 0
    /\ evictions' = 0
    /\ expirations' = 0
    /\ Returns("ResetStats", Nil, FALSE, Nil, FALSE)
    /\ UNCHANGED <<capacity, ttl, items, lruList, now>>

\* mutant: the ratio is not scaled to a percentage
HitRate_Fraction(h, m) ==
    IF h + m > 0 THEN [num |-> h, den |-> h + m] ELSE [num |-> 0, den |-> 1]

\* float64(hits) / float64(total) * 100, or 0 when total is 0; the float is
\* kept as the exact fraction num / den
HitRate(h, m) ==
    IF h + m > 0 THEN [num |-> h * 100, den |-> h + m] ELSE [num |-> 0, den |-> 1]

CacheStats ==
    [Hits |-> hits, Misses |-> misses, HitRate |-> HitRate(hits, misses),
     Evictions |-> evictions, Expirations |-> expirations,
     Size |-> Cardinality(DOMAIN items), Capacity |-> capacity]

Stats ==
    /\ Returns("Stats", Nil, FALSE, CacheStats, FALSE)
    /\ UNCHANGED <<capacity, ttl, items, lruList, hits, misses, evictions, expirations, now>>

----------------------------------------------------------------------------
(* The cleanup goroutine: one iteration of the loop over ticker.C *)

\* mutant: a tick that stops after the first expired key
removeAll_Once(c, expiredKeys) ==
    IF expiredKeys = {} THEN c
    ELSE [remove(c, CHOOSE k \in expiredKeys : TRUE) EXCEPT !.expirations = @ + 1]

RECURSIVE removeAll(_, _)
removeAll(c, expiredKeys) ==
    IF expiredKeys = {} THEN c
    ELSE LET key == CHOOSE k \in expiredKeys : TRUE
         IN  removeAll([remove(c, key) EXCEPT !.expirations = @ + 1],
                       expiredKeys \ {key})

\* mutant: the comparison reversed, so that the live entries are collected
ExpiredKeys_Reversed(t) == {key \in DOMAIN items : items[key].expiration > t}

ExpiredKeys(t) == {key \in DOMAIN items : Expired(items[key], t)}

cleanupExpired ==
    /\ now >= ttl \div 2
    /\ CanCount(Cardinality(ExpiredKeys(now)))
    /\ Commit(removeAll(Cache, ExpiredKeys(now)))
    /\ Returns("cleanupExpired", Nil, FALSE, Nil, FALSE)
    /\ UNCHANGED <<capacity, ttl, now>>

----------------------------------------------------------------------------
(* Time passing between calls *)

TimePasses ==
    /\ now < MaxTime
    /\ now' = now + 1
    /\ UNCHANGED <<capacity, ttl, items, lruList, hits, misses, evictions, expirations, ret,
                   touched>>
    /\ UNCHANGED aux

----------------------------------------------------------------------------

(* The history variable.  It is computed from the calls and their results    *)
(* alone: a Get that reports found and a Set touch their key, a Set records  *)
(* its value and time, and a key that is no longer stored is forgotten.      *)

Without(h, key) == SelectSeq(h, LAMBDA r : r.key # key)

Only(h, key) == SelectSeq(h, LAMBDA r : r.key = key)

StillStored(h) == SelectSeq(h, LAMBDA r : r.key \in DOMAIN items')

TouchedKeys == [i \in 1..Len(touched) |-> touched[i].key]

HistoryOf(key) == Only(touched, key)[1]

RecordGet(key) ==
    touched' = StillStored(IF ret'.found THEN Only(touched, key) \o Without(touched, key)
                           ELSE touched)

RecordSet(key, value) ==
    touched' = StillStored(<<[key |-> key, value |-> value, at |-> now]>>
                           \o Without(touched, key))

RecordOther == touched' = StillStored(touched)

----------------------------------------------------------------------------

Next ==
    \/ \E key \in Keys : Get(key) /\ RecordGet(key) /\ UNCHANGED aux
    \/ \E key \in Keys, value \in Values :
            Set(key, value) /\ RecordSet(key, value) /\ UNCHANGED aux
    \/ \E key \in Keys : Delete(key) /\ RecordOther /\ UNCHANGED aux
    \/ Clear /\ RecordOther /\ UNCHANGED aux
    \/ ResetStats /\ RecordOther /\ UNCHANGED aux
    \/ cleanupExpired /\ RecordOther /\ UNCHANGED aux
    \/ TimePasses

Spec == Init /\ [][Next]_vars

----------------------------------------------------------------------------
(* Stats on a cache whose counters have any small values: the counters are   *)
(* drawn at the start instead of being counted up call by call.              *)

MaxStat == 3

StatsInit ==
    /\ \E cap \in Capacities : capacity = cap
    /\ ttl = TTL
    /\ items = << >>
    /\ lruList = << >>
    /\ hits \in 0..MaxStat
    /\ misses \in 0..MaxStat
    /\ evictions \in 0..1
    /\ expirations \in 0..1
    /\ now = 0
    /\ ret = NoCall
    /\ touched = << >>
    /\ AuxInit

StatsNext ==
    \/ Stats /\ RecordOther /\ UNCHANGED aux
    \/ \E key \in Keys, value \in Values :
            Set(key, value) /\ RecordSet(key, value) /\ UNCHANGED aux
    \/ ResetStats /\ RecordOther /\ UNCHANGED aux

StatsSpec == StatsInit /\ [][StatsNext]_vars

----------------------------------------------------------------------------
(* Construction with any capacity and ttl: NewLRUCache checks neither, and  *)
(* the goroutine it starts builds its ticker from ttl / 2.                  *)
(***************************************************************************)

ConfigCapacities == {-1, 0, 1}
ConfigTTLs == {-1, 0, 1, 2}

\* NewLRUCache has returned; the goroutine of `go c.cleanupExpired()` has not run yet
ConfigInit ==
    /\ \E cap \in ConfigCapacities, d \in ConfigTTLs : NewLRUCache(cap, d)
    /\ now = 0
    /\ ret = NoCall
    /\ touched = << >>
    /\ reclaimer = "starting"
    /\ AroundInit

\* the first statement of cleanupExpired: ticker := time.NewTicker(c.ttl / 2)
cleanupStart ==
    /\ reclaimer = "starting"
    /\ reclaimer' = NewTicker(TickPeriod(ttl))
    /\ UNCHANGED <<capacity, ttl, items, lruList, hits, misses, evictions, expirations, now,
                   ret, touched, disposed, lastTick, serverCache, calls, heap, buckets, mu, pc>>

\* a panic in a goroutine that nothing recovers ends the process
Alive == reclaimer # "panicked"

ConfigNext ==
    \/ cleanupStart
    \/ Alive /\ \E key \in Keys : Get(key) /\ RecordGet(key) /\ UNCHANGED aux
    \/ Alive /\ \E key \in Keys, value \in Values :
            Set(key, value) /\ RecordSet(key, value) /\ UNCHANGED aux
    \/ Alive /\ \E key \in Keys : Delete(key) /\ RecordOther /\ UNCHANGED aux
    \/ Alive /\ Clear /\ RecordOther /\ UNCHANGED aux
    \/ reclaimer = "running" /\ cleanupExpired /\ RecordOther /\ UNCHANGED aux
    \/ Alive /\ TimePasses

ConfigSpec == ConfigInit /\ [][ConfigNext]_vars

(* The server's statistics endpoint, Server.handleCacheStats.               *)
(***************************************************************************)

StatusOK == 200
StatusServiceUnavailable == 503

\* the methods of a cache type, each with its result type
MethodSet(t) ==
    IF t = "LRUCache"
    THEN [Get |-> "(interface{}, bool)", Set |-> "", Delete |-> "", Clear |-> "",
          Size |-> "int", Stats |-> "CacheStats", ResetStats |-> ""]
    ELSE << >>

\* the interface handleCacheStats declares: interface { Stats() interface{} }
Statable == [Stats |-> "interface{}"]

\* a type assertion to an interface succeeds when the dynamic type has every
\* method of the interface with the identical signature
Implements(t, iface) ==
    \A m \in DOMAIN iface : m \in DOMAIN MethodSet(t) /\ MethodSet(t)[m] = iface[m]

\* encoding/json of a CacheStats: the fields under their json tags
JsonOfCacheStats(st) ==
    [hits |-> st.Hits, misses |-> st.Misses, hit_rate_percent |-> st.HitRate,
     evictions |-> st.Evictions, expirations |-> st.Expirations,
     current_size |-> st.Size, capacity |-> st.Capacity]

\* the map handleCacheStats builds for a cache that is not Statable
SizeOnly ==
    [size |-> Size, note |-> "detailed statistics not available for this cache implementation"]

handleCacheStats ==
    /\ ret' = [NoCall EXCEPT
                  !.op = "handleCacheStats",
                  !.value =
                      IF serverCache = Nil
                      THEN [status |-> StatusServiceUnavailable,
                            body |-> [error |-> "cache not enabled"]]
                      ELSE [status |-> StatusOK,
                            body |-> [cache_stats |->
                                        IF Implements(serverCache, Statable)
                                        THEN JsonOfCacheStats(CacheStats)
                                        ELSE SizeOnly]]]
    /\ UNCHANGED <<capacity, ttl, items, lruList, hits, misses, evictions, expirations, now,
                   touched>>
    /\ UNCHANGED aux

\* a server configured without a cache, or with an LRUCache
ServerInit ==
    /\ \E cap \in Capacities : NewLRUCache(cap, TTL)
    /\ now = 0
    /\ ret = NoCall
    /\ touched = << >>
    /\ reclaimer = NewTicker(TickPeriod(ttl))
    /\ disposed = FALSE
    /\ lastTick = 0
    /\ serverCache \in {Nil, "LRUCache"}
    /\ calls = NoCalls
    /\ heap = << >>
    /\ buckets = << >>
    /\ mu = Unlocked
    /\ pc = [p \in Procs |-> Idle]

ServerNext ==
    \/ handleCacheStats
    \/ serverCache # Nil /\ \E key \in Keys : Get(key) /\ RecordGet(key) /\ UNCHANGED aux
    \/ serverCache # Nil /\ \E key \in Keys, value \in Values :
            Set(key, value) /\ RecordSet(key, value) /\ UNCHANGED aux

ServerSpec == ServerInit /\ [][ServerNext]_vars

(* The token-bucket limiter, RateLimiter: one bucket per client.  Each call *)
(* of allow is one step.  In this specification `touched` is the history   *)
(* of each client known to the limiter: when its bucket was created and    *)
(* the results of the first requests made at that very instant.            *)
(***************************************************************************)

Rate == 2
Interval == 2

Clients == {"ip1", "ip2"}

\* long enough for a bucket to go stale: not refilled for more than interval * 2
LimiterMaxTime == 2 * Interval + 1

Min(a, b) == IF a <= b THEN a ELSE b

\* int(float64(rl.rate) * (elapsed.Seconds() / rl.interval.Seconds())): the
\* quotient is rounded before it is multiplied, so a product that is a whole
\* number in exact arithmetic may come out just below it and truncate to one less
TokensToAdd(elapsed) ==
    LET exact == (Rate * elapsed) \div Interval
    IN  IF (Rate * elapsed) % Interval = 0 /\ elapsed % Interval # 0 /\ exact > 0
        THEN {exact - 1, exact}
        ELSE {exact}

NewBucket == [tokens |-> Rate, lastRefill |-> now]

\* the refill of allow: full once interval has elapsed, else in proportion
refill(b, add) ==
    IF now - b.lastRefill >= Interval
    THEN [tokens |-> Rate, lastRefill |-> now]
    ELSE [tokens |-> Min(b.tokens + add, Rate),
          lastRefill |-> IF add > 0 THEN now ELSE b.lastRefill]

\* mutant: a request that passes and leaves its token in the bucket
take_Free(b) == b

\* b.tokens-- of a request that passes
take(b) == [b EXCEPT !.tokens = @ - 1]

\* the history after a request of client: a new record for a new bucket, and
\* the result appended while no time has passed since the bucket was made
RecordAllow(client, exists, ok) ==
    LET h == IF exists THEN touched[client] ELSE [created |-> now, results |-> << >>]
    IN  touched' = MapPut(touched, client,
                          IF now = h.created /\ Len(h.results) <= Rate
                          THEN [h EXCEPT !.results = Append(@, ok)]
                          ELSE h)

allow(clientIP) ==
    LET exists == clientIP \in DOMAIN buckets
        b == IF exists THEN buckets[clientIP] ELSE NewBucket
    IN  \E add \in TokensToAdd(now - b.lastRefill) :
            LET filled == refill(b, add)
                ok == filled.tokens > 0
            IN  /\ buckets' = MapPut(buckets, clientIP, IF ok THEN take(filled) ELSE filled)
                /\ Returns("allow", clientIP, exists, ok, FALSE)
                /\ RecordAllow(clientIP, exists, ok)
                /\ UNCHANGED <<capacity, ttl, items, lruList, hits, misses, evictions,
                               expirations, now, reclaimer, disposed, lastTick, serverCache, calls, heap,
                               mu, pc>>

\* the buckets cleanup deletes: not refilled for more than interval * 2
Stale == {ip \in DOMAIN buckets : now - buckets[ip].lastRefill > Interval * 2}

\* one tick of RateLimiter.cleanup; its ticker has the period interval * 2
cleanup ==
    /\ now >= Interval * 2
    /\ buckets' = [ip \in (DOMAIN buckets) \ Stale |-> buckets[ip]]
    /\ touched' = [ip \in (DOMAIN buckets) \ Stale |-> touched[ip]]
    /\ UNCHANGED <<capacity, ttl, items, lruList, hits, misses, evictions, expirations, now,
                   ret, reclaimer, disposed, lastTick, serverCache, calls, heap, mu, pc>>

LimiterTimePasses ==
    /\ now < LimiterMaxTime
    /\ now' = now + 1
    /\ UNCHANGED <<capacity, ttl, items, lruList, hits, misses, evictions, expirations, ret,
                   touched>>
    /\ UNCHANGED aux

\* NewRateLimiter(Rate, Interval): no bucket yet
LimiterInit ==
    /\ NewLRUCache(Cardinality(Keys) - 1, TTL)
    /\ now = 0
    /\ ret = NoCall
    /\ touched = << >>
    /\ AuxInit

LimiterNext ==
    \/ \E clientIP \in Clients : allow(clientIP)
    \/ cleanup
    \/ LimiterTimePasses

LimiterSpec == LimiterInit /\ [][LimiterNext]_vars

(* The cleanup goroutine on its schedule.  The ticker made at construction  *)
(* fires at every multiple of its period; the goroutine, scheduled as soon  *)
(* as a tick falls, serves it before the clock moves on.  Callers Set and   *)
(* Delete; a Set of a new key leaves room in the counters for the eviction  *)
(* or expiration that each stored entry may still cost.                     *)
(***************************************************************************)

\* long enough for an entry to be set, expire and meet the next tick twice over
TimedMaxTime == 2 * TTL + 2

\* a tick of ticker.C that cleanupExpired has not served yet
TickDue ==
    /\ reclaimer = "running"
    /\ now > lastTick
    /\ now % TickPeriod(ttl) = 0

Tick ==
    /\ TickDue
    /\ cleanupExpired
    /\ RecordOther
    /\ lastTick' = now
    /\ UNCHANGED <<reclaimer, disposed, serverCache, calls, heap, buckets, mu, pc>>

TimedTimePasses ==
    /\ now < TimedMaxTime
    /\ ~TickDue
    /\ now' = now + 1
    /\ UNCHANGED <<capacity, ttl, items, lruList, hits, misses, evictions, expirations, ret,
                   touched>>
    /\ UNCHANGED aux

TimedNext ==
    \/ \E key \in Keys, value \in Values :
            /\ key \in DOMAIN items \/ CanCount(Size + 1)
            /\ Set(key, value) /\ RecordSet(key, value) /\ UNCHANGED aux
    \/ \E key \in Keys : Delete(key) /\ RecordOther /\ UNCHANGED aux
    \/ Tick
    \/ TimedTimePasses

TimedSpec == Init /\ [][TimedNext]_vars

\* the goroutine is scheduled and the clock runs
TimedFairSpec == TimedSpec /\ WF_vars(Tick) /\ WF_vars(TimedTimePasses)

(* Disposal.  LRUCache has no Close or Stop and NewLRUCache takes no        *)
(* context or channel: all an owner can do with a cache it is done with is  *)
(* to drop it.  The loop of cleanupExpired ranges over ticker.C, which is   *)
(* never closed, so the goroutine has no step that leaves the loop.         *)
(***************************************************************************)

\* the owner makes its last use of the cache
Dispose ==
    /\ ~disposed
    /\ disposed' = TRUE
    /\ UNCHANGED <<capacity, ttl, items, lruList, hits, misses, evictions, expirations, now,
                   ret, touched, reclaimer, lastTick, serverCache, calls, heap, buckets, mu, pc>>

DisposeNext ==
    \/ Dispose
    \/ ~disposed /\ \E key \in Keys, value \in Values :
            /\ key \in DOMAIN items \/ CanCount(Size + 1)
            /\ Set(key, value) /\ RecordSet(key, value) /\ UNCHANGED aux
    \/ ~disposed /\ \E key \in Keys : Delete(key) /\ RecordOther /\ UNCHANGED aux
    \/ Tick
    \/ TimedTimePasses

DisposeSpec == Init /\ [][DisposeNext]_vars /\ WF_vars(Tick) /\ WF_vars(TimedTimePasses)

(* Goroutines.  Two callers and the cleanup goroutine share the cache; a    *)
(* call is a step that takes c.mu, the steps of its body, and the release   *)
(* of c.mu, which is taken together with the last step of the body (the     *)
(* deferred Unlock runs as the method returns).  The insertion of a new key *)
(* is two steps, the push on the list and the store in the map, so that the *)
(* state between them, where the list holds a key the map does not, is a    *)
(* state of the model.                                                      *)
(***************************************************************************)

ConcKeys == {"a", "b"}
ConcValue == "v1"

WriteOps == {"Get", "Set", "Delete", "Clear"}
ReadOps == {"Size", "Stats"}

\* what is outside the cache and its lock
outside == <<reclaimer, disposed, lastTick, serverCache, calls, heap, buckets>>

\* mutant: a Lock that does not wait
CanLock_Always(m) == TRUE

\* c.mu.Lock() returns when no goroutine holds the mutex, for writing or reading
CanLock(m) == m = Unlocked

\* c.mu.RLock() returns when no goroutine holds the mutex for writing
CanRLock(m) == m.writer = Nil

\* the events a call may count, for which the counters must have room
Counts(op) ==
    IF op \in {"Get", "Set"} THEN 1 ELSE IF op = "cleanupExpired" THEN Size ELSE 0

\* c.mu.Lock() at the head of Get, Set, Delete, Clear and of the cleanup loop's body
Lock(p, op, key) ==
    /\ pc[p] = Idle
    /\ CanLock(mu)
    /\ CanCount(Counts(op))
    /\ mu' = [mu EXCEPT !.writer = p]
    /\ pc' = [pc EXCEPT ![p] = [at |-> "locked", op |-> op,
                                key |-> IF op \in {"Get", "Set", "Delete"} THEN key ELSE Nil,
                                value |-> IF op = "Set" THEN ConcValue ELSE Nil,
                                item |-> NoItem]]
    /\ UNCHANGED <<capacity, ttl, items, lruList, hits, misses, evictions, expirations, now,
                   ret, touched>>
    /\ UNCHANGED outside

\* c.mu.RLock() at the head of Size and Stats
RLock(p, op) ==
    /\ pc[p] = Idle
    /\ CanRLock(mu)
    /\ mu' = [mu EXCEPT !.readers = @ \cup {p}]
    /\ pc' = [pc EXCEPT ![p] = [at |-> "rlocked", op |-> op, key |-> Nil, value |-> Nil,
                                item |-> NoItem]]
    /\ UNCHANGED <<capacity, ttl, items, lruList, hits, misses, evictions, expirations, now,
                   ret, touched>>
    /\ UNCHANGED outside

\* the deferred c.mu.Unlock()
Unlock(p) ==
    /\ mu' = [mu EXCEPT !.writer = Nil]
    /\ pc' = [pc EXCEPT ![p] = Idle]

\* the deferred c.mu.RUnlock()
RUnlock(p) ==
    /\ mu' = [mu EXCEPT !.readers = @ \ {p}]
    /\ pc' = [pc EXCEPT ![p] = Idle]

In(p, at, op) == pc[p].at = at /\ pc[p].op = op

GetBody(p) ==
    /\ In(p, "locked", "Get")
    /\ Get(pc[p].key) /\ RecordGet(pc[p].key)
    /\ Unlock(p)
    /\ UNCHANGED outside

\* Set of a key that is stored: lines 79-85
SetUpdateBody(p) ==
    /\ In(p, "locked", "Set")
    /\ pc[p].key \in DOMAIN items
    /\ Set(pc[p].key, pc[p].value) /\ RecordSet(pc[p].key, pc[p].value)
    /\ Unlock(p)
    /\ UNCHANGED outside

\* Set of a new key, up to item.element = c.lruList.PushFront(key): lines 87-100
SetPush(p) ==
    /\ In(p, "locked", "Set")
    /\ pc[p].key \notin DOMAIN items
    /\ LET c1 == IF Len(lruList) >= capacity THEN evictOldest(Cache) ELSE Cache
           l2 == ListPushFront(c1.lruList, pc[p].key)
           item == [key |-> pc[p].key, value |-> pc[p].value, expiration |-> now + ttl,
                    element |-> l2[1].id]
       IN  /\ Commit([c1 EXCEPT !.lruList = l2])
           /\ pc' = [pc EXCEPT ![p].at = "pushed", ![p].item = item]
    /\ RecordOther
    /\ UNCHANGED <<capacity, ttl, now, ret, mu>>
    /\ UNCHANGED outside

\* c.items[key] = item: line 101
SetStore(p) ==
    /\ In(p, "pushed", "Set")
    /\ items' = MapPut(items, pc[p].key, pc[p].item)
    /\ Returns("Set", pc[p].key, FALSE, Nil, FALSE)
    /\ touched' = <<[key |-> pc[p].key, value |-> pc[p].value,
                     at |-> pc[p].item.expiration - ttl]>> \o Without(touched, pc[p].key)
    /\ Unlock(p)
    /\ UNCHANGED <<capacity, ttl, lruList, hits, misses, evictions, expirations, now>>
    /\ UNCHANGED outside

DeleteBody(p) ==
    /\ In(p, "locked", "Delete")
    /\ Delete(pc[p].key) /\ RecordOther
    /\ Unlock(p)
    /\ UNCHANGED outside

ClearBody(p) ==
    /\ In(p, "locked", "Clear")
    /\ Clear /\ RecordOther
    /\ Unlock(p)
    /\ UNCHANGED outside

\* return len(c.items)
SizeBody(p) ==
    /\ In(p, "rlocked", "Size")
    /\ Returns("Size", Nil, FALSE, Size, FALSE)
    /\ RUnlock(p)
    /\ UNCHANGED <<capacity, ttl, items, lruList, hits, misses, evictions, expirations, now,
                   touched>>
    /\ UNCHANGED outside

StatsBody(p) ==
    /\ In(p, "rlocked", "Stats")
    /\ Stats /\ RecordOther
    /\ RUnlock(p)
    /\ UNCHANGED outside

\* the body of the cleanup loop: lines 187-200
cleanupBody ==
    /\ In(Cleaner, "locked", "cleanupExpired")
    /\ cleanupExpired /\ RecordOther
    /\ Unlock(Cleaner)
    /\ UNCHANGED outside

ConcInit ==
    /\ \E cap \in Capacities : NewLRUCache(cap, TTL)
    /\ now = 0
    /\ ret = NoCall
    /\ touched = << >>
    /\ AuxInit

ConcNext ==
    \/ \E p \in Callers, op \in WriteOps, key \in ConcKeys : Lock(p, op, key)
    \/ \E p \in Callers, op \in ReadOps : RLock(p, op)
    \/ \E p \in Callers : GetBody(p)
    \/ \E p \in Callers : SetUpdateBody(p)
    \/ \E p \in Callers : SetPush(p)
    \/ \E p \in Callers : SetStore(p)
    \/ \E p \in Callers : DeleteBody(p)
    \/ \E p \in Callers : ClearBody(p)
    \/ \E p \in Callers : SizeBody(p)
    \/ \E p \in Callers : StatsBody(p)
    \/ now >= TickPeriod(ttl) /\ Lock(Cleaner, "cleanupExpired", Nil)
    \/ cleanupBody
    \/ TimePasses

ConcSpec == ConcInit /\ [][ConcNext]_vars

(* The calls counted.  The specification of the cache with Size and Stats   *)
(* among the calls and with the history `calls`, which is kept from the     *)
(* calls made and what they returned and counted.                           *)
(***************************************************************************)

\* the variables around the cache other than the history of calls
around == <<reclaimer, disposed, lastTick, serverCache, heap, buckets, mu, pc>>

\* the key is stored, by the history of Sets, and its ttl has run out
Lapsed(key) ==
    /\ \E i \in 1..Len(touched) : touched[i].key = key
    /\ now > HistoryOf(key).at + ttl

CountGet ==
    calls' = [calls EXCEPT !.gets = @ + 1,
                           !.getExpirations = @ + (expirations' - expirations)]

CountSet(key) ==
    calls' = [calls EXCEPT !.revived = IF Lapsed(key) THEN key ELSE Nil]

CountReset ==
    calls' = [calls EXCEPT !.gets = 0, !.getExpirations = 0,
                           !.lowered = hits + misses + evictions + expirations > 0]

\* the call c.Size()
SizeCall ==
    /\ Returns("Size", Nil, FALSE, Size, FALSE)
    /\ UNCHANGED <<capacity, ttl, items, lruList, hits, misses, evictions, expirations, now>>

\* the keys of the calls counted
CountKeys == {"a", "b"}

CountInit ==
    /\ \E cap \in Capacities : NewLRUCache(cap, TTL)
    /\ now = 0
    /\ ret = NoCall
    /\ touched = << >>
    /\ AuxInit

CountNext ==
    \/ \E key \in CountKeys : Get(key) /\ RecordGet(key) /\ CountGet /\ UNCHANGED around
    \/ \E key \in CountKeys, value \in Values :
            Set(key, value) /\ RecordSet(key, value) /\ CountSet(key) /\ UNCHANGED around
    \/ \E key \in CountKeys : Delete(key) /\ RecordOther /\ UNCHANGED aux
    \/ Clear /\ RecordOther /\ UNCHANGED aux
    \/ SizeCall /\ RecordOther /\ UNCHANGED aux
    \/ Stats /\ RecordOther /\ UNCHANGED aux
    \/ ResetStats /\ RecordOther /\ CountReset /\ UNCHANGED around
    \/ cleanupExpired /\ RecordOther /\ UNCHANGED aux
    \/ TimePasses

CountSpec == CountInit /\ [][CountNext]_vars
(***************************************************************************)
(* Calls that wait.  A call is started, then waits for c.mu, then runs its  *)
(* body and releases c.mu as it returns.  c.mu is a sync.RWMutex: Lock      *)
(* first excludes the other writers and announces itself, which makes every *)
(* later RLock wait, and then waits for the readers that hold the mutex to  *)
(* leave; Unlock admits all the readers that waited.  ResetStats takes no   *)
(* mutex.  The clock stops at the first tick of the cleanup goroutine, so   *)
(* no entry expires and every body counts at most one event.                *)
(***************************************************************************)

CallKey == "a"

LockOps == WriteOps \cup {"cleanupExpired"}

\* the events the calls in progress may still count
Reserve(p) ==
    IF pc[p] = Idle THEN 0
    ELSE IF pc[p].op \in {"Get", "Set"} THEN 1
    ELSE IF pc[p].op = "cleanupExpired" THEN capacity
    ELSE 0

Reserved == Reserve("g1") + Reserve("g2") + Reserve(Cleaner)

\* a goroutine enters a method of the cache, or the ticker fires
Call(p, op) ==
    /\ pc[p] = Idle
    /\ CanCount(Reserved + (IF op \in {"Get", "Set"} THEN 1
                            ELSE IF op = "cleanupExpired" THEN capacity ELSE 0))
    /\ pc' = [pc EXCEPT ![p] = [at |-> "called", op |-> op,
                                key |-> IF op \in {"Get", "Set", "Delete"} THEN CallKey ELSE Nil,
                                value |-> IF op = "Set" THEN ConcValue ELSE Nil,
                                item |-> NoItem]]
    /\ UNCHANGED <<capacity, ttl, items, lruList, hits, misses, evictions, expirations, now,
                   ret, touched, mu>>
    /\ UNCHANGED outside

\* the goroutines between the first and the second half of c.mu.Lock(), or
\* past it and before c.mu.Unlock()
Writers == {q \in Procs : pc[q].at \in {"announced", "locked"}}

\* c.mu.Lock(), first half: the writer excludes other writers and announces itself
Announce(p) ==
    /\ pc[p].at = "called"
    /\ pc[p].op \in LockOps
    /\ Writers = {}
    /\ pc' = [pc EXCEPT ![p].at = "announced"]
    /\ UNCHANGED <<capacity, ttl, items, lruList, hits, misses, evictions, expirations, now,
                   ret, touched, mu>>
    /\ UNCHANGED outside

\* c.mu.Lock(), second half: the readers that held the mutex have left
Acquire(p) ==
    /\ pc[p].at = "announced"
    /\ mu.readers = {}
    /\ mu' = [mu EXCEPT !.writer = p]
    /\ pc' = [pc EXCEPT ![p].at = "locked"]
    /\ UNCHANGED <<capacity, ttl, items, lruList, hits, misses, evictions, expirations, now,
                   ret, touched>>
    /\ UNCHANGED outside

\* c.mu.RLock(): the reader holds the mutex at once when no writer has
\* announced itself, and waits otherwise
RLockOrWait(p) ==
    /\ pc[p].at = "called"
    /\ pc[p].op \in ReadOps
    /\ IF Writers = {}
       THEN /\ mu' = [mu EXCEPT !.readers = @ \cup {p}]
            /\ pc' = [pc EXCEPT ![p].at = "rlocked"]
       ELSE /\ mu' = mu
            /\ pc' = [pc EXCEPT ![p].at = "waiting"]
    /\ UNCHANGED <<capacity, ttl, items, lruList, hits, misses, evictions, expirations, now,
                   ret, touched>>
    /\ UNCHANGED outside

\* mutant: an Unlock that wakes no reader
Release_NoWake(p) ==
    /\ mu' = [mu EXCEPT !.writer = Nil]
    /\ pc' = [pc EXCEPT ![p] = Idle]

\* the deferred c.mu.Unlock(): the readers that waited hold the mutex
Release(p) ==
    /\ mu' = [writer |-> Nil, readers |-> {q \in Procs : pc[q].at = "waiting"}]
    /\ pc' = [q \in Procs |-> IF q = p THEN Idle
                              ELSE IF pc[q].at = "waiting" THEN [pc[q] EXCEPT !.at = "rlocked"]
                              ELSE pc[q]]

CallGet(p) ==
    /\ In(p, "locked", "Get")
    /\ Get(pc[p].key) /\ RecordGet(pc[p].key)
    /\ Release(p)
    /\ UNCHANGED outside

CallSet(p) ==
    /\ In(p, "locked", "Set")
    /\ Set(pc[p].key, pc[p].value) /\ RecordSet(pc[p].key, pc[p].value)
    /\ Release(p)
    /\ UNCHANGED outside

CallDelete(p) ==
    /\ In(p, "locked", "Delete")
    /\ Delete(pc[p].key) /\ RecordOther
    /\ Release(p)
    /\ UNCHANGED outside

CallClear(p) ==
    /\ In(p, "locked", "Clear")
    /\ Clear /\ RecordOther
    /\ Release(p)
    /\ UNCHANGED outside

\* ResetStats stores the four zeroes and returns; it touches no mutex
CallResetStats(p) ==
    /\ In(p, "called", "ResetStats")
    /\ ResetStats /\ RecordOther
    /\ pc' = [pc EXCEPT ![p] = Idle]
    /\ UNCHANGED mu
    /\ UNCHANGED outside

\* the body of the cleanup loop, run by the ticker
CallCleanup ==
    /\ In(Cleaner, "locked", "cleanupExpired")
    /\ cleanupExpired /\ RecordOther
    /\ Release(Cleaner)
    /\ UNCHANGED outside

\* the step that ends the call of p
Body(p) ==
    \/ CallGet(p) \/ CallSet(p) \/ CallDelete(p) \/ CallClear(p)
    \/ SizeBody(p) \/ StatsBody(p) \/ CallResetStats(p)
    \/ p = Cleaner /\ CallCleanup

CallTimePasses == now < TickPeriod(ttl) /\ TimePasses

CallInit ==
    /\ NewLRUCache(1, TTL)
    /\ now = 0
    /\ ret = NoCall
    /\ touched = << >>
    /\ AuxInit

CallNext ==
    \/ \E p \in Callers, op \in WriteOps \cup ReadOps \cup {"ResetStats"} : Call(p, op)
    \/ now >= TickPeriod(ttl) /\ Call(Cleaner, "cleanupExpired")
    \/ \E p \in Procs : Announce(p)
    \/ \E p \in Procs : Acquire(p)
    \/ \E p \in Callers : RLockOrWait(p)
    \/ \E p \in Callers : CallGet(p)
    \/ \E p \in Callers : CallSet(p)
    \/ \E p \in Callers : CallDelete(p)
    \/ \E p \in Callers : CallClear(p)
    \/ \E p \in Callers : SizeBody(p)
    \/ \E p \in Callers : StatsBody(p)
    \/ \E p \in Callers : CallResetStats(p)
    \/ CallCleanup
    \/ CallTimePasses

CallSpec == CallInit /\ [][CallNext]_vars

\* sync.Mutex hands the lock to a goroutine that keeps waiting for it, and
\* the scheduler runs every goroutine that can take a step
CallFairSpec ==
    /\ CallSpec
    /\ \A p \in Procs :
        /\ SF_vars(Announce(p))
        /\ WF_vars(Acquire(p))
        /\ WF_vars(RLockOrWait(p))
        /\ WF_vars(Body(p))

(***************************************************************************)
(* The rate limiter with goroutines.  allow is two steps: the lookup of     *)
(* the client's bucket under rl.mu, which leaves the goroutine with a       *)
(* pointer to the bucket, and the decision under b.mu; cleanup may run      *)
(* between them.  `heap` holds the buckets by pointer and `buckets` is      *)
(* rl.buckets, from client to pointer; a bucket that nothing points to is   *)
(* collected.  `touched` is, for each client, the instant of its latest     *)
(* decision, the number of requests allowed at that instant, and the        *)
(* instant of the latest decision before it.                                *)
(***************************************************************************)

RaceClients == {"ip1"}

\* &bucket{...}: an address that is not in use
NewPointer == CHOOSE n \in 1..(Cardinality(DOMAIN heap) + 1) : n \notin DOMAIN heap

\* the buckets of h that rl.buckets or a goroutine points to
Collect(h, bs, ps) ==
    LET used == {bs[ip] : ip \in DOMAIN bs}
                    \cup {ps[p].b : p \in {q \in Callers : ps[q].at = "fetched"}}
    IN  [n \in (DOMAIN h) \cap used |-> h[n]]

\* allow up to rl.mu.Unlock(): lines 196-205
allowLookup(p, clientIP) ==
    /\ pc[p] = Idle
    /\ LET exists == clientIP \in DOMAIN buckets
           b == IF exists THEN buckets[clientIP] ELSE NewPointer
       IN  /\ heap' = IF exists THEN heap ELSE MapPut(heap, b, NewBucket)
           /\ buckets' = MapPut(buckets, clientIP, b)
           /\ pc' = [pc EXCEPT ![p] = [at |-> "fetched", op |-> "allow", key |-> clientIP,
                                       value |-> Nil, item |-> NoItem, b |-> b]]
    /\ UNCHANGED <<capacity, ttl, items, lruList, hits, misses, evictions, expirations, now,
                   ret, touched, reclaimer, disposed, lastTick, serverCache, calls, mu>>

\* the history after a decision for client
RecordDecision(client, ok) ==
    LET h == IF client \in DOMAIN touched THEN touched[client]
             ELSE [prev |-> -1, at |-> -1, allowed |-> 0]
        n == IF ok THEN 1 ELSE 0
    IN  touched' = MapPut(touched, client,
                          IF h.at = now
                          THEN [h EXCEPT !.allowed = Min(@ + n, Rate + 2)]
                          ELSE [prev |-> h.at, at |-> now, allowed |-> n])

\* allow from b.mu.Lock() to its return: lines 207-233
allowDecide(p) ==
    /\ pc[p].at = "fetched"
    /\ LET b == heap[pc[p].b]
       IN  \E add \in TokensToAdd(now - b.lastRefill) :
            LET filled == refill(b, add)
                ok == filled.tokens > 0
                ps == [pc EXCEPT ![p] = Idle]
            IN  /\ heap' = Collect(MapPut(heap, pc[p].b, IF ok THEN take(filled) ELSE filled),
                                   buckets, ps)
                /\ pc' = ps
                /\ Returns("allow", pc[p].key,
                           pc[p].key \in DOMAIN buckets /\ buckets[pc[p].key] = pc[p].b,
                           ok, FALSE)
                /\ RecordDecision(pc[p].key, ok)
    /\ UNCHANGED <<capacity, ttl, items, lruList, hits, misses, evictions, expirations, now,
                   buckets, reclaimer, disposed, lastTick, serverCache, calls, mu>>

\* one tick of RateLimiter.cleanup: lines 242-251
cleanupTick ==
    /\ now >= Interval * 2
    /\ LET stale == {ip \in DOMAIN buckets : now - heap[buckets[ip]].lastRefill > Interval * 2}
           bs == [ip \in (DOMAIN buckets) \ stale |-> buckets[ip]]
       IN  /\ buckets' = bs
           /\ heap' = Collect(heap, bs, pc)
    /\ UNCHANGED <<capacity, ttl, items, lruList, hits, misses, evictions, expirations, now,
                   ret, touched, reclaimer, disposed, lastTick, serverCache, calls, mu, pc>>

LimiterRaceNext ==
    \/ \E p \in Callers, clientIP \in RaceClients : allowLookup(p, clientIP)
    \/ \E p \in Callers : allowDecide(p)
    \/ cleanupTick
    \/ LimiterTimePasses

LimiterRaceSpec == LimiterInit /\ [][LimiterRaceNext]_vars


(***************************************************************************)
(* Properties *)

\* the keys of the recency list, front first
ListKeys(l) == [i \in 1..Len(l) |-> l[i].Value]

SeqWithout(s, x) == SelectSeq(s, LAMBDA y : y # x)

CountersUnchanged == UNCHANGED <<hits, misses, evictions, expirations>>

\* The steps of each call.  Each is the call's action: the tests on ret' say
\* nothing the action does not say, and come first so that the action is
\* evaluated only on the steps that can be its own.
GetStep(key) == ret'.op = "Get" /\ ret'.key = key /\ Get(key)

SetStep(key, value) == ret'.op = "Set" /\ ret'.key = key /\ Set(key, value)

DeleteStep(key) == ret'.op = "Delete" /\ ret'.key = key /\ Delete(key)

ClearStep == ret'.op = "Clear" /\ Clear

ResetStatsStep == ret'.op = "ResetStats" /\ ResetStats

cleanupExpiredStep == ret'.op = "cleanupExpired" /\ cleanupExpired

\* C1: in every reachable state the number of stored entries, which is what
\* Size() returns, is at most the capacity the cache was constructed with.
CapacityBound == Size <= capacity

\* a Set has just evicted to make room and the cache is full again
CapacityBoundWitness ==
    /\ ret.op = "Set" /\ ~ret.stored
    /\ evictions > 0
    /\ Size = capacity

\* C2: a Set of a key that is not stored, on a cache holding capacity entries,
\* removes exactly one entry, the one whose latest touch (Get hit or Set) is
\* the oldest, adds one to evictions, and keeps every other entry as it was.
EvictsLeastRecentlyTouched ==
    [][\A key \in Keys, value \in Values :
        (SetStep(key, value) /\ key \notin DOMAIN items /\ Size = capacity) =>
            LET victim == touched[Len(touched)].key
            IN  /\ victim \in DOMAIN items
                /\ DOMAIN items' = (DOMAIN items \ {victim}) \cup {key}
                /\ \A k \in DOMAIN items \ {victim} : items'[k] = items[k]
                /\ evictions' = evictions + 1
                /\ UNCHANGED <<hits, misses, expirations>>]_vars

\* capacity 2: Set(a), Set(b), Get(a), Set(c) has left a and c stored, b not
EvictsLeastRecentlyTouchedWitness ==
    /\ capacity = 2
    /\ ret.op = "Set" /\ ret.key = "c"
    /\ DOMAIN items = {"a", "c"}
    /\ TouchedKeys = <<"c", "a">>
    /\ hits = 1 /\ evictions = 1 /\ misses = 0 /\ expirations = 0

\* C3: a Get of a stored key whose expiry has not passed reports found with
\* the value of the latest Set of that key, moves the key to the front of the
\* recency order keeping the order of the others, adds one to hits, and
\* changes no entry (its expiry included) and no other counter.
GetHitContract ==
    [][\A key \in Keys :
        (GetStep(key) /\ key \in DOMAIN items /\ ~(now > items[key].expiration)) =>
            /\ ret'.found
            /\ ret'.value = HistoryOf(key).value
            /\ ListKeys(lruList') = <<key>> \o SeqWithout(ListKeys(lruList), key)
            /\ items' = items
            /\ hits' = hits + 1
            /\ UNCHANGED <<misses, evictions, expirations>>]_vars

\* a hit in a two-entry cache at the very instant of the expiry, returning v2
GetHitContractWitness ==
    /\ ret.op = "Get" /\ ret.found /\ ret.value = "v2"
    /\ hits = 1
    /\ Size = 2
    /\ lruList[1].Value = ret.key
    /\ now = items[ret.key].expiration


\* C4 as stated: a Get of a stored key at or after its expiry, the instant
\* now = expiresAt included, removes the entry from the store and the recency
\* order, adds one to expirations and one to misses, none to hits, and
\* reports not found.
GetAtOrAfterExpiryRemoves ==
    [][\A key \in Keys :
        (GetStep(key) /\ key \in DOMAIN items /\ now >= items[key].expiration) =>
            /\ key \notin DOMAIN items'
            /\ \A i \in 1..Len(lruList') : lruList'[i].Value # key
            /\ expirations' = expirations + 1
            /\ misses' = misses + 1
            /\ hits' = hits
            /\ ~ret'.found]_vars

\* C4 amended: a Get of a stored key strictly after its expiry removes the
\* entry from the store and the recency order, adds one to expirations and
\* one to misses, none to hits, and reports not found; at the instant
\* now = expiresAt the entry is still stored and returned as a hit.
GetAfterExpiryRemoves ==
    [][\A key \in Keys :
        /\ (GetStep(key) /\ key \in DOMAIN items /\ now > items[key].expiration) =>
                /\ key \notin DOMAIN items'
                /\ \A i \in 1..Len(lruList') : lruList'[i].Value # key
                /\ expirations' = expirations + 1
                /\ misses' = misses + 1
                /\ hits' = hits
                /\ ~ret'.found
        /\ (GetStep(key) /\ key \in DOMAIN items /\ now = items[key].expiration) =>
                /\ key \in DOMAIN items'
                /\ ret'.found
                /\ hits' = hits + 1
                /\ UNCHANGED <<misses, expirations>>]_vars

\* Get found its key stored and expired, and removed it, while another entry
\* that has expired too is still stored: the removal was not the reclaimer's
GetAfterExpiryRemovesWitness ==
    /\ ret.op = "Get" /\ ret.stored /\ ~ret.found
    /\ ret.key \notin DOMAIN items
    /\ expirations = 1 /\ misses = 1 /\ hits = 0
    /\ \E k \in DOMAIN items : now > items[k].expiration

\* C5: an entry written by Set at time t and still stored is found by a Get at
\* every time before t + ttl, with the value written, and is not found by a
\* Get at any time after t + ttl; neither a reclaimer tick nor a Get removes
\* or changes an entry at a time up to its t + ttl.
TTLBoundary ==
    [][\A key \in DOMAIN items :
        LET t == HistoryOf(key).at
        IN  /\ (GetStep(key) /\ now < t + ttl) =>
                    ret'.found /\ ret'.value = HistoryOf(key).value
            /\ (GetStep(key) /\ now > t + ttl) => ~ret'.found
            /\ ((cleanupExpiredStep \/ \E k \in Keys : GetStep(k)) /\ now <= t + ttl) =>
                    key \in DOMAIN items' /\ items'[key] = items[key]]_vars

\* a hit one instant before the expiry of its entry, after the reclaimer has
\* removed another entry (an expiration counted without a miss)
TTLBoundaryWitness ==
    /\ ret.op = "Get" /\ ret.found
    /\ now = HistoryOf(ret.key).at + ttl - 1
    /\ expirations = 1 /\ misses = 0

\* C6: a Set of a stored key writes the value, sets the expiry to now + ttl,
\* moves the key to the front of the recency order, and evicts nothing: the
\* stored keys, the size, the other entries and the four counters stay.
SetUpdateContract ==
    [][\A key \in Keys, value \in Values :
        (SetStep(key, value) /\ key \in DOMAIN items) =>
            /\ DOMAIN items' = DOMAIN items
            /\ Cardinality(DOMAIN items') = Size
            /\ items'[key].value = value
            /\ items'[key].expiration = now + ttl
            /\ ListKeys(lruList') = <<key>> \o SeqWithout(ListKeys(lruList), key)
            /\ \A k \in DOMAIN items \ {key} : items'[k] = items[k]
            /\ CountersUnchanged]_vars

\* a Set that found its key stored in a full cache, later than the other
\* entry was written, and nothing was ever evicted
SetUpdateContractWitness ==
    /\ ret.op = "Set" /\ ret.stored
    /\ capacity = 2 /\ Size = capacity
    /\ evictions = 0
    /\ lruList[1].Value = ret.key
    /\ items[ret.key].expiration > items[lruList[2].Value].expiration

\* C7: a Get of a key that is not stored reports not found, adds one to
\* misses, and leaves the store, the recency order and the other counters.
GetMissContract ==
    [][\A key \in Keys :
        (GetStep(key) /\ key \notin DOMAIN items) =>
            /\ ~ret'.found
            /\ misses' = misses + 1
            /\ items' = items
            /\ lruList' = lruList
            /\ UNCHANGED <<hits, evictions, expirations>>]_vars

\* a Get that did not find its key in a cache that holds other keys
GetMissContractWitness ==
    /\ ret.op = "Get" /\ ~ret.stored /\ ~ret.found
    /\ misses = 1
    /\ Size > 0

\* C8: Delete of a stored key removes the entry and its place in the recency
\* order, the size drops by one and a Get that follows reports not found;
\* Delete of a key that is not stored changes nothing, so a second Delete
\* changes nothing; Delete never changes a counter.
DeleteContract ==
    [][\A key \in Keys :
        /\ DeleteStep(key) =>
                /\ CountersUnchanged
                /\ key \notin DOMAIN items'
                /\ IF key \in DOMAIN items
                   THEN /\ DOMAIN items' = DOMAIN items \ {key}
                        /\ Cardinality(DOMAIN items') = Size - 1
                        /\ ListKeys(lruList') = SeqWithout(ListKeys(lruList), key)
                        /\ \A k \in DOMAIN items' : items'[k] = items[k]
                   ELSE items' = items /\ lruList' = lruList
        /\ (DeleteStep(key) /\ ret.op = "Delete" /\ ret.key = key) =>
                items' = items /\ lruList' = lruList
        /\ (GetStep(key) /\ ret.op = "Delete" /\ ret.key = key) => ~ret'.found]_vars

\* a Delete that found its key, after a hit, leaving one entry
DeleteContractWitness ==
    /\ ret.op = "Delete" /\ ret.stored
    /\ Size = 1 /\ Len(lruList) = 1
    /\ hits = 1

\* C9: Clear leaves the store and the recency order empty and the four
\* counters as they were, and a Get that follows reports not found.
ClearContract ==
    [][/\ ClearStep =>
            /\ Cardinality(DOMAIN items') = 0
            /\ lruList' = << >>
            /\ CountersUnchanged
       /\ \A key \in Keys : (GetStep(key) /\ ret.op = "Clear") => ~ret'.found]_vars

\* the state after a Clear, with a hit and an eviction still counted
ClearContractWitness ==
    /\ ret.op = "Clear"
    /\ Size = 0
    /\ hits = 1 /\ evictions = 1

\* C10: ResetStats, run on its own, leaves the four counters at 0 and the
\* entries, the recency order, the size and the capacity as they were.
ResetStatsContract ==
    [][ResetStatsStep =>
        /\ hits' = 0 /\ misses' = 0 /\ evictions' = 0 /\ expirations' = 0
        /\ items' = items
        /\ lruList' = lruList
        /\ Cardinality(DOMAIN items') = Size
        /\ capacity' = capacity]_vars

\* the state after a ResetStats on a full cache of two entries
ResetStatsContractWitness ==
    /\ ret.op = "ResetStats"
    /\ hits = 0 /\ misses = 0 /\ evictions = 0 /\ expirations = 0
    /\ Size = 2 /\ Size = capacity


\* C11: Stats reports the hits and misses counters as they are and a hit rate
\* r with r * (hits + misses) = 100 * hits when there was a lookup, and 0 when
\* there was none; 3 hits and 1 miss give 75.
StatsHitRate ==
    ret.op = "Stats" =>
        LET s == ret.value
            r == s.HitRate
        IN  /\ s.Hits = hits
            /\ s.Misses = misses
            /\ r.den > 0
            /\ hits + misses > 0 => r.num * (hits + misses) = 100 * hits * r.den
            /\ hits + misses = 0 => r.num = 0
            /\ (hits = 3 /\ misses = 1) => r.num = 75 * r.den

\* the snapshot taken after 3 hits and 1 miss, with a hit rate of 75
StatsHitRateWitness ==
    /\ ret.op = "Stats"
    /\ hits = 3 /\ misses = 1
    /\ ret.value.HitRate.num = 75 * ret.value.HitRate.den
    /\ ret.value.Size = 2

\* C12: a cache constructed with capacity <= 0 is rejected at construction:
\* no cache comes back that accepts a Set, so no Set on it ever stores an entry
NonPositiveCapacityRejected ==
    capacity <= 0 => ~(ret.op = "Set" /\ ret.key \in DOMAIN items)

\* C20: whatever ttl the cache was constructed with, the cleanup goroutine gets
\* a ticker with a strictly positive period and does not fail when it starts
ReclaimerStartsWithPositivePeriod ==
    /\ reclaimer # "panicked"
    /\ reclaimer = "running" => TickPeriod(ttl) > 0

\* C13: the statistics endpoint of a server whose cache is an LRUCache answers
\* with the cache's Stats() snapshot under the fields hits, misses,
\* hit_rate_percent, evictions, expirations, current_size and capacity, not
\* with the size-only fallback; without a cache it answers 503
StatsEndpointAnswersSnapshot ==
    ret.op = "handleCacheStats" =>
        /\ serverCache = Nil => ret.value.status = StatusServiceUnavailable
        /\ serverCache = "LRUCache" =>
                /\ ret.value.status = StatusOK
                /\ ret.value.body.cache_stats = JsonOfCacheStats(CacheStats)
                /\ ret.value.body.cache_stats # SizeOnly

\* C15: the entry store and the recency list are in bijection: the list holds
\* each stored key exactly once and no other key, it is as long as the store
\* is large, and each entry's handle is the list node that holds its key
StoreListBijection ==
    /\ Len(lruList) = Cardinality(DOMAIN items)
    /\ \A i \in 1..Len(lruList) : lruList[i].Value \in DOMAIN items
    /\ \A i, j \in 1..Len(lruList) :
            (lruList[i].Value = lruList[j].Value \/ lruList[i].id = lruList[j].id) => i = j
    /\ \A key \in DOMAIN items :
            /\ items[key].key = key
            /\ \E i \in 1..Len(lruList) :
                    lruList[i].Value = key /\ lruList[i].id = items[key].element

\* a hit has moved the older of two list nodes in front of the newer one,
\* after an entry was removed and its node given up
StoreListBijectionWitness ==
    /\ ret.op = "Get" /\ ret.found
    /\ Len(lruList) = 2
    /\ lruList[1].id < lruList[2].id
    /\ items[ret.key].element = lruList[1].id
    /\ expirations + evictions > 0

\* C17: one tick of the reclaimer removes the stored entries whose expiry has
\* passed and no other, adds the number it removed to expirations, leaves hits,
\* misses and evictions alone, and leaves the surviving entries' values,
\* expiry times and relative recency order as they were
ReclaimerTickContract ==
    [][cleanupExpiredStep =>
        LET gone == {key \in DOMAIN items : now > HistoryOf(key).at + ttl}
        IN  /\ DOMAIN items' = (DOMAIN items) \ gone
            /\ expirations' = expirations + Cardinality(gone)
            /\ UNCHANGED <<hits, misses, evictions, capacity, ttl>>
            /\ \A key \in DOMAIN items' : items'[key] = items[key]
            /\ lruList' = SelectSeq(lruList, LAMBDA e : e.Value \notin gone)]_vars

\* a tick has removed an expired entry and left a live one, with no Get
\* having counted a miss or an expiration before it
ReclaimerTickContractWitness ==
    /\ ret.op = "cleanupExpired"
    /\ expirations = 1 /\ misses = 0 /\ evictions = 0
    /\ Len(touched) = 1
    /\ touched[1].at < now /\ now <= touched[1].at + ttl
    /\ DOMAIN items = {touched[1].key}

\* the first instant after x at which a ticker of period ttl / 2 fires
FirstTickAfter(x) == (ttl \div 2) * (x \div (ttl \div 2) + 1)

\* C18: with the reclaimer ticking every ttl / 2 and served as its ticks
\* fall, an entry set at t and not set again is removed with no caller
\* touching it, at the first tick after t + ttl, which is no later than
\* t + ttl + ttl / 2: no entry is stored beyond that tick, and in the end
\* only entries set too late to meet such a tick before the clock's bound
\* are stored
ReclaimedByNextTick ==
    /\ [](\A key \in DOMAIN items :
            LET t == HistoryOf(key).at
            IN  /\ now <= FirstTickAfter(t + ttl)
                /\ now = FirstTickAfter(t + ttl) => lastTick < now
                /\ FirstTickAfter(t + ttl) <= t + ttl + ttl \div 2)
    /\ <>[](\A key \in DOMAIN items :
                HistoryOf(key).at + ttl + ttl \div 2 > TimedMaxTime)

\* the tick at ttl + ttl / 2 has removed an entry set at time 0, which no
\* tick before it could remove
ReclaimedByNextTickWitness ==
    /\ ret.op = "cleanupExpired"
    /\ lastTick = now
    /\ now = ttl + ttl \div 2
    /\ expirations = 1 /\ evictions = 0
    /\ items = << >>

\* C19: the reclaimer can be stopped: once the cache is disposed its
\* goroutine comes to an end, and from then on it takes the lock no more
ReclaimerStopsAfterDispose ==
    /\ disposed ~> reclaimer # "running"
    /\ [][(disposed /\ reclaimer # "running") => ~cleanupExpiredStep]_vars

\* the goroutines between taking c.mu for writing and giving it back, and
\* those between RLock and RUnlock
Writing == {p \in Procs : pc[p].at \in {"locked", "pushed"}}
Reading == {p \in Procs : pc[p].at = "rlocked"}

Pushed == {p \in Procs : pc[p].at = "pushed"}

\* the store as it is once the insertion under way, if there is one, is complete
LinearItems ==
    IF Pushed = {} THEN items
    ELSE LET p == CHOOSE q \in Pushed : TRUE
         IN  MapPut(items, pc[p].key, pc[p].item)

\* the store its and the list l are in bijection
Bijection(its, l) ==
    /\ Len(l) = Cardinality(DOMAIN its)
    /\ \A i \in 1..Len(l) : l[i].Value \in DOMAIN its
    /\ \A i, j \in 1..Len(l) : (l[i].Value = l[j].Value \/ l[i].id = l[j].id) => i = j
    /\ \A key \in DOMAIN its :
            its[key].key = key
            /\ \E i \in 1..Len(l) : l[i].Value = key /\ l[i].id = its[key].element

\* C16: with goroutines calling Get, Set, Delete and Clear while the reclaimer
\* ticks, at most one goroutine is between Lock and Unlock, none is between
\* RLock and RUnlock while one is, the store and the list change only in a
\* step of the goroutine that holds the lock, nothing changes between the two
\* halves of an insertion but its own completion, Size returns the size of the
\* store as the completed calls left it, and the store as the completed calls
\* leave it keeps the capacity bound and the bijection with the list
ConcurrencySafe ==
    /\ [](/\ Cardinality(Writing) <= 1
          /\ Writing # {} => Reading = {}
          /\ mu.readers = Reading
          /\ mu.writer = Nil <=> Writing = {}
          /\ Writing # {} => mu.writer \in Writing
          /\ Cardinality(DOMAIN LinearItems) <= capacity
          /\ Bijection(LinearItems, lruList))
    /\ [][/\ <<items, lruList>>' # <<items, lruList>> =>
                (\E p \in Writing : pc'[p] # pc[p])
          /\ Pushed # {} =>
                /\ LinearItems' = LinearItems
                /\ UNCHANGED <<lruList, hits, misses, evictions, expirations>>
          /\ \A q \in Callers :
                (In(q, "rlocked", "Size") /\ pc'[q] = Idle) =>
                    ret'.value = Cardinality(DOMAIN LinearItems)]_vars

\* a goroutine is between the two halves of an insertion into a cache that
\* another goroutine filled and the reclaimer has swept
ConcurrencySafeWitness ==
    /\ pc["g1"].at = "pushed"
    /\ mu.writer = "g1"
    /\ ret.op = "cleanupExpired"
    /\ expirations >= 1
    /\ Len(lruList) = 2
    /\ Cardinality(DOMAIN items) = 1

allowStep(clientIP) == ret'.op = "allow" /\ ret'.key = clientIP /\ allow(clientIP)

\* C14: of the requests a new client makes at the instant its bucket is made,
\* the first Rate are allowed and the next is denied; a request made once
\* Interval has elapsed since the bucket's last refill finds the bucket
\* refilled to Rate and is allowed; every bucket's tokens stay within 0..Rate
TokenBucketContract ==
    /\ [](\A ip \in DOMAIN buckets :
            /\ buckets[ip].tokens \in 0..Rate
            /\ \A i \in 1..Len(touched[ip].results) : touched[ip].results[i] <=> i <= Rate)
    /\ [][\A ip \in Clients :
            (allowStep(ip) /\ ip \in DOMAIN buckets
                /\ now - buckets[ip].lastRefill >= Interval)
            => /\ ret'.value = TRUE
               /\ buckets'[ip] = [tokens |-> Rate - 1, lastRefill |-> now]]_vars

\* a client was allowed Rate requests and denied the next at the instant its
\* bucket was made, and is allowed again Interval later
TokenBucketContractWitness ==
    /\ ret.op = "allow"
    /\ ret.value = TRUE
    /\ ret.key \in DOMAIN buckets
    /\ Len(touched[ret.key].results) = Rate + 1
    /\ touched[ret.key].results[Rate + 1] = FALSE
    /\ now = touched[ret.key].created + Interval
    /\ buckets[ret.key] = [tokens |-> Rate - 1, lastRefill |-> now]

SizeStep == ret'.op = "Size" /\ SizeCall

StatsStep == ret'.op = "Stats" /\ Stats

\* C21: hits, misses, evictions and expirations are never negative, and no
\* step lowers any of them but a ResetStats: not Get, Set, Delete, Clear,
\* Size, Stats or a tick of the reclaimer
CountersMonotone ==
    /\ [](hits >= 0 /\ misses >= 0 /\ evictions >= 0 /\ expirations >= 0)
    /\ [][(hits' < hits \/ misses' < misses \/ evictions' < evictions
                \/ expirations' < expirations) => ResetStatsStep]_vars
    /\ [][((\E key \in CountKeys : GetStep(key) \/ DeleteStep(key))
                \/ (\E key \in CountKeys, value \in Values : SetStep(key, value))
                \/ ClearStep \/ SizeStep \/ StatsStep \/ cleanupExpiredStep)
            => (hits' >= hits /\ misses' >= misses /\ evictions' >= evictions
                    /\ expirations' >= expirations)]_vars

\* a ResetStats has lowered counters that calls had raised
CountersMonotoneWitness ==
    /\ ret.op = "ResetStats"
    /\ calls.lowered
    /\ hits = 0 /\ misses = 0 /\ evictions = 0 /\ expirations = 0
    /\ Size = 1

\* C24: every Get adds one to exactly one of hits and misses, so that since
\* the last ResetStats hits + misses is the number of Gets completed and the
\* expirations the Gets counted are no more than misses; Set, Delete, Clear
\* and Size leave hits and misses as they are
GetCountsOnce ==
    /\ [](calls.gets = hits + misses /\ calls.getExpirations <= misses)
    /\ [][\A key \in CountKeys :
            GetStep(key) => \/ hits' = hits + 1 /\ misses' = misses
                            \/ hits' = hits /\ misses' = misses + 1]_vars
    /\ [][((\E key \in CountKeys : DeleteStep(key))
                \/ (\E key \in CountKeys, value \in Values : SetStep(key, value))
                \/ ClearStep \/ SizeStep)
            => UNCHANGED <<hits, misses>>]_vars

\* two Gets, a hit and a miss
GetCountsOnceWitness ==
    /\ ret.op = "Get"
    /\ calls.gets = 2
    /\ hits = 1 /\ misses = 1

\* C25: a Set of a new key into a full cache removes the entry at the back of
\* the recency order, also when that entry is live and another stored entry
\* has expired; it counts an eviction and no expiration and keeps the expired
\* entry, which Size goes on counting while time passes
EvictionIgnoresExpiry ==
    /\ [][\A key \in Keys, value \in Values :
            (SetStep(key, value) /\ key \notin DOMAIN items /\ Size = capacity) =>
                LET victim == touched[Len(touched)].key
                IN  (~Lapsed(victim) /\ \E k \in DOMAIN items : Lapsed(k)) =>
                        /\ DOMAIN items' = ((DOMAIN items) \ {victim}) \cup {key}
                        /\ \A k \in (DOMAIN items) \ {victim} : items'[k] = items[k]
                        /\ evictions' = evictions + 1
                        /\ expirations' = expirations
                        /\ Cardinality(DOMAIN items') = capacity]_vars
    /\ [][now' # now => Cardinality(DOMAIN items') = Size]_vars

\* a Set has evicted from a full cache of two, no expiration was ever counted,
\* and the entry that stayed had expired before the Set
EvictionIgnoresExpiryWitness ==
    /\ ret.op = "Set" /\ ~ret.stored
    /\ capacity = 2 /\ Size = 2
    /\ evictions = 1 /\ expirations = 0
    /\ HistoryOf(ret.key).at = now
    /\ \E k \in DOMAIN items : Lapsed(k)

\* C26: a Set of a key whose stored entry has expired and was not removed
\* writes the new value and the expiry now + ttl and moves the key to the
\* front; it counts no expiration and no eviction and removes no entry; a Get
\* of the key before the new expiry is a hit that returns the new value
SetRevivesExpired ==
    /\ [][\A key \in CountKeys, value \in Values :
            (SetStep(key, value) /\ Lapsed(key)) =>
                /\ items'[key].value = value
                /\ items'[key].expiration = now + ttl
                /\ ListKeys(lruList') = <<key>> \o SeqWithout(ListKeys(lruList), key)
                /\ DOMAIN items' = DOMAIN items
                /\ \A k \in (DOMAIN items) \ {key} : items'[k] = items[k]
                /\ CountersUnchanged]_vars
    /\ [][\A key \in CountKeys :
            (GetStep(key) /\ calls.revived = key
                /\ (\E i \in 1..Len(touched) : touched[i].key = key)
                /\ now <= HistoryOf(key).at + ttl) =>
                    ret'.found /\ ret'.value = HistoryOf(key).value]_vars

\* a Get has hit the entry a Set had revived with the value v2, beside an
\* entry that has expired and is still stored
SetRevivesExpiredWitness ==
    /\ ret.op = "Get" /\ ret.found /\ ret.value = "v2"
    /\ calls.revived = ret.key
    /\ Size = 2
    /\ \E k \in DOMAIN items : Lapsed(k)

\* the steps of the calls in progress: every step but the start of a call
\* and the passage of time
Progress == \E p \in Procs : Announce(p) \/ Acquire(p) \/ RLockOrWait(p) \/ Body(p)

\* C22: a goroutine that waits for c.mu does not hold it, so that a goroutine
\* never waits for itself; while a call is in progress some call in progress
\* can take a step; and under fair scheduling every call that was started,
\* of Get, Set, Delete, Clear, Size, Stats or ResetStats, returns, whatever
\* the cleanup goroutine does
CallsComplete ==
    /\ [](\A p \in Procs :
            pc[p].at \in {"called", "announced", "waiting"} =>
                mu.writer # p /\ p \notin mu.readers)
    /\ []((\E p \in Procs : pc[p] # Idle) => ENABLED Progress)
    /\ \A p \in Procs : (pc[p] # Idle) ~> (pc[p] = Idle)

\* a Stats call has returned while a writer has announced itself and the
\* cleanup goroutine waits for the mutex
CallsCompleteWitness ==
    /\ ret.op = "Stats"
    /\ pc["g1"] = Idle
    /\ pc["g2"].at = "announced"
    /\ pc[Cleaner].at = "called"

\* C23: a call of Stats or ResetStats takes no part in c.mu: it never waits
\* for the mutex, so it completes while another goroutine is inside Get, Set
\* or a tick of the cleanup goroutine, and it never holds the mutex, so no
\* Get or Set waits for it
StatsTakeNoLock ==
    \A p \in Callers :
        pc[p].op \in {"Stats", "ResetStats"} =>
            /\ pc[p].at # "waiting"
            /\ p \notin mu.readers

\* C27: for one client, the requests allowed at one instant that follows an
\* idle time of more than interval * 2 are at most rate, however the allow
\* calls of that instant interleave with the cleanup that deletes the
\* client's stale bucket
AllowedAfterIdleAtMostRate ==
    \A client \in DOMAIN touched :
        (touched[client].prev >= 0
            /\ touched[client].at - touched[client].prev > Interval * 2)
        => touched[client].allowed <= Rate

====
